---- MODULE Spec2Model ----
(***************************************************************************)
(* A model of examples/showVisitSkyMap.py: main() draws the sky footprint  *)
(* of every selected sensor of every visit, computes the view limits from  *)
(* the accumulated corner points, optionally overlays the sky map's        *)
(* patches, and saves or shows the figure.                                 *)
(*                                                                         *)
(* Sky coordinates are integers counted in hundredths of a degree; the     *)
(* inputs lie on the 0.1 degree grid, so that p*interval of percent() is   *)
(* exact for p = 0.5 and p = 0.9.  The fractions p are counted in tenths.  *)
(*                                                                         *)
(* The calls main makes into the butler, the WCS and pyplot are recorded   *)
(* in `calls`, in program order, each with whether it returned (ok) or     *)
(* raised.  Which call raises is the environment's choice.  The camera     *)
(* geometry accessors (getBBox, getSerial, getType) and the list           *)
(* extensions of lines 74-75 are taken to return normally.                 *)
(***************************************************************************)
EXTENDS Integers, Sequences, FiniteSets, TLC

VARIABLES
    args,       \* main's parameters: tract, visits, ccds, ccdKey, showPatch, saveFile
    camera,     \* butler.mapper.camera: the sequence of sensors
    repoSkyMap, \* the deepCoadd_skyMap held by the repository
    pc,         \* position of main
    i_v,        \* index of the visit being drawn (0-based, as enumerate gives it)
    i_c,        \* position of the camera iterator (1-based)
    ras, decs,  \* the accumulated corner points
    xlim, ylim, \* the view limits, <<>> until computed
    skymap,     \* the fetched sky map, <<>> until fetched
    i_t, i_p,   \* positions of the tract and patch iterators (1-based)
    calls,      \* the external calls made so far
    raised,     \* the call whose error ended main, "" when none
    faults,     \* number of calls that raised so far
    twin        \* a second run of main on the same inputs but another tract

vars == <<args, camera, repoSkyMap, pc, i_v, i_c, ras, decs, xlim, ylim,
          skymap, i_t, i_p, calls, raised, faults, twin>>

----------------------------------------------------------------------------
(* Bounds of the model *)

MaxVisits == 2
MaxCycle == 7
MaxFaults == 1

----------------------------------------------------------------------------
(* Program constants *)

\* buff = 0.1 (degrees), in hundredths of a degree
Buff == 10

\* ('r', 'b', 'c', 'g', 'm')
Palette == <<"r", "b", "c", "g", "m">>

\* saveFile=None, ccds=None
None == "<None>"

SCIENCE == "SCIENCE"

----------------------------------------------------------------------------
(* The inputs the model draws from *)

VisitIds == {100, 101}
Tracts == {0, 1}

\* the values of tract, showPatch and saveFile: every two of them in every combination
Options ==
    { [tract |-> 0, showPatch |-> FALSE, saveFile |-> None],
      [tract |-> 0, showPatch |-> TRUE, saveFile |-> "plot.png"],
      [tract |-> 1, showPatch |-> TRUE, saveFile |-> None],
      [tract |-> 1, showPatch |-> FALSE, saveFile |-> "plot.png"] }

Box(w, h) == [minX |-> 0, minY |-> 0, maxX |-> w, maxY |-> h]

Sensor(serial, type) == [serial |-> serial, type |-> type, bbox |-> Box(1000, 1000)]

\* one science sensor
CamOne == <<Sensor(1, SCIENCE)>>
\* a mosaic, not sorted by serial, with a guider between the science sensors
CamMosaic == <<Sensor(2, SCIENCE), Sensor(9, "GUIDER"), Sensor(1, SCIENCE)>>
\* three science sensors (1, 2, 3) and one that is not
CamFour == <<Sensor(1, SCIENCE), Sensor(2, SCIENCE), Sensor(3, SCIENCE), Sensor(9, "GUIDER")>>

NoCcds == [given |-> FALSE, ids |-> {}]
Ccds(ids) == [given |-> TRUE, ids |-> ids]

Setups ==
    { [camera |-> CamOne, ccds |-> NoCcds, ccdKey |-> "ccd"],
      [camera |-> CamMosaic, ccds |-> NoCcds, ccdKey |-> "sensor"],
      [camera |-> CamMosaic, ccds |-> Ccds({9}), ccdKey |-> "ccd"],
      [camera |-> CamFour, ccds |-> Ccds({1, 3}), ccdKey |-> "ccd"],
      [camera |-> CamFour, ccds |-> Ccds({2, 7}), ccdKey |-> "ccd"] }

\* The exposure metadata of the repository: the sky position of pixel (0, 0)
\* of sensor ccdId in exposure visit.
CalexpMd(visit, ccdId) ==
    [crval |-> <<1000 + 500 * (visit - 100) + 1200 * (ccdId - 1),
                 3000 + 300 * (visit - 100)>>]

Patch(ix, iy) ==
    [index |-> <<ix, iy>>,
     innerBBox |-> [minX |-> 1000 * ix, minY |-> 1000 * iy,
                    maxX |-> 1000 * (ix + 1), maxY |-> 1000 * (iy + 1)]]

\* Two tracts.  The centroid of patch (1, 0) of the first tract has
\* Dec 29.90, the lower view limit when only sensor 1 of visit 100 is drawn.
SkyMapTwo ==
    << [wcs |-> <<0, 2490>>, patches |-> <<Patch(0, 0), Patch(1, 0), Patch(1, 1)>>],
       [wcs |-> <<2000, 2490>>, patches |-> <<Patch(0, 0)>>] >>

SkyMaps == {SkyMapTwo}

----------------------------------------------------------------------------
(* bboxToRaDec and percent *)

\* bbox.getCorners(): (minX,minY), (maxX,minY), (maxX,maxY), (minX,maxY)
getCorners(bbox) ==
    << <<bbox.minX, bbox.minY>>, <<bbox.maxX, bbox.minY>>,
       <<bbox.maxX, bbox.maxY>>, <<bbox.minX, bbox.maxY>> >>

\* afwImage.makeWcs(md): the WCS of the metadata, here its reference position
makeWcs(md) == md.crval

\* wcs.pixelToSky(p).toIcrs(), as <<RA, Dec>>: the WCS is a translation
pixelToSky(wcs, p) == <<wcs[1] + p[1], wcs[2] + p[2]>>

\* Get the corners of a BBox and convert them to lists of RA and Dec.
bboxToRaDec(bbox, wcs) ==
    LET corners == [k \in 1..Len(getCorners(bbox)) |->
                        pixelToSky(wcs, getCorners(bbox)[k])]
    IN  [ra  |-> [k \in 1..Len(corners) |-> corners[k][1]],
         dec |-> [k \in 1..Len(corners) |-> corners[k][2]]]

min(values) ==
    CHOOSE m \in {values[k] : k \in 1..Len(values)} :
        \A k \in 1..Len(values) : m <= values[k]

max(values) ==
    CHOOSE m \in {values[k] : k \in 1..Len(values)} :
        \A k \in 1..Len(values) : m >= values[k]

\* Return a value a fraction of the way between the min and max values in a
\* list; p is counted in tenths (5 is 0.5, the default).
percent(values, p) ==
    LET m == min(values)
        interval == max(values) - m
    IN  m + (p * interval) \div 10

----------------------------------------------------------------------------
(* The expressions of main *)

\* as if the sensor's type were not tested
Selected_anyType(ccds, ccd) == ~ccds.given \/ ccd.serial \in ccds.ids

\* (ccds is None or ccdId in ccds) and ccd.getType() is cameraGeom.SCIENCE
Selected(ccds, ccd) ==
    (~ccds.given \/ ccd.serial \in ccds.ids) /\ ccd.type = SCIENCE

\* dataId = {'visit': visit, ccdKey: ccdId}; a later key replaces an equal earlier one
DataId(visit, ccdKey, ccdId) == (ccdKey :> ccdId) @@ ("visit" :> visit)

\* as if the palette were indexed from the second colour
Color_shifted(iv) == Palette[((iv + 1) % 5) + 1]

\* color = ('r', 'b', 'c', 'g', 'm')[i_v%5]
Color(iv) == Palette[(iv % 5) + 1]

\* pyplot.fill(ra, dec, fill=True, alpha=0.2, color=color, edgecolor=color)
FootprintFill(rd, color) ==
    [op |-> "fill", ra |-> rd.ra, dec |-> rd.dec, fill |-> TRUE, alpha |-> "0.2",
     color |-> color, edgecolor |-> color, lw |-> "default", linestyle |-> "solid"]

\* as if the RA axis were not inverted
XLim_ascending(points) == <<min(points) - Buff, max(points) + Buff>>

\* xlim = max(ras)+buff, min(ras)-buff
XLim(points) == <<max(points) + Buff, min(points) - Buff>>

\* ylim = min(decs)-buff, max(decs)+buff
YLim(points) == <<min(points) - Buff, max(points) + Buff>>

\* as if the sky map were requested for the tract given to main
SkyMapDataId_arg(tract) == ("tract" :> tract)

\* butler.get('deepCoadd_skyMap', {'tract': 0})
SkyMapDataId(tract) == ("tract" :> 0)

\* pyplot.fill(ra, dec, fill=False, edgecolor='k', lw=1, linestyle='dashed')
PatchFill(rd) ==
    [op |-> "fill", ra |-> rd.ra, dec |-> rd.dec, fill |-> FALSE, alpha |-> "default",
     color |-> "default", edgecolor |-> "k", lw |-> "1", linestyle |-> "dashed"]

\* as if the comparisons with the limits were not strict
InView_closed(rd, xl, yl) ==
    /\ xl[2] <= percent(rd.ra, 5)
    /\ percent(rd.ra, 5) <= xl[1]
    /\ yl[1] <= percent(rd.dec, 5)
    /\ percent(rd.dec, 5) <= yl[2]

\* xlim[1] < percent(ra) < xlim[0] and ylim[0] < percent(dec) < ylim[1]
InView(rd, xl, yl) ==
    /\ xl[2] < percent(rd.ra, 5)
    /\ percent(rd.ra, 5) < xl[1]
    /\ yl[1] < percent(rd.dec, 5)
    /\ percent(rd.dec, 5) < yl[2]

\* pyplot.text(percent(ra), percent(dec, 0.9), str(patch.getIndex()), fontsize=6,
\*             horizontalalignment='center', verticalalignment='top')
PatchText(rd, patch) ==
    [op |-> "text", x |-> percent(rd.ra, 5), y |-> percent(rd.dec, 9),
     s |-> patch.index, fontsize |-> 6, horizontalalignment |-> "center",
     verticalalignment |-> "top"]

\* as if the test of saveFile were inverted
RenderCall_inverted(saveFile) == IF saveFile = None THEN "savefig" ELSE "show"

\* fig.savefig(saveFile) if saveFile is not None, else fig.show()
RenderCall(saveFile) == IF saveFile # None THEN "savefig" ELSE "show"

----------------------------------------------------------------------------
(* The steps of main.  Each step is an operator from the state s of a run, *)
(* the inputs in and the call o that raises in the step ("ok": none) to    *)
(* the next state of the run, with the condition under which it is taken.  *)

Run == [pc |-> pc, i_v |-> i_v, i_c |-> i_c, ras |-> ras, decs |-> decs,
        xlim |-> xlim, ylim |-> ylim, skymap |-> skymap, i_t |-> i_t, i_p |-> i_p,
        calls |-> calls, raised |-> raised, faults |-> faults]

In == [args |-> args, camera |-> camera, repoSkyMap |-> repoSkyMap]

\* the calls of a sequence up to and with the one that raises, each with its outcome
Through(cs, o) ==
    LET n == IF \E k \in 1..Len(cs) : cs[k].op = o
             THEN CHOOSE k \in 1..Len(cs) : cs[k].op = o
             ELSE Len(cs)
    IN  [k \in 1..n |-> cs[k] @@ [ok |-> cs[k].op # o]]

\* an error outside the try block ends main
Raise(s, call) == [s EXCEPT !.pc = "error", !.raised = call]

\* a call that raises outside the try block
Fail(s, call) == Raise([s EXCEPT !.faults = @ + 1], call)

\* at most MaxFaults calls raise in a run
MayRaise(s, o) == o # "ok" => s.faults < MaxFaults

\* for i_v, visit in enumerate(visits): print("%r visit=%r" % (i_v, visit))
AtBeginVisit(s, in, o) == s.pc = "visit" /\ s.i_v < Len(in.args.visits) /\ o = "ok"
DoBeginVisit(s, in, o) ==
    [s EXCEPT !.pc = "sensor", !.i_c = 1,
              !.calls = Append(@, [op |-> "print", i_v |-> s.i_v,
                                   visit |-> in.args.visits[s.i_v + 1]])]

\* the visits are exhausted
AtEndVisits(s, in, o) == s.pc = "visit" /\ s.i_v >= Len(in.args.visits) /\ o = "ok"
DoEndVisits(s, in, o) == [s EXCEPT !.pc = "limits"]

\* for ccd in camera: the sensors of the camera are exhausted
AtEndCamera(s, in, o) == s.pc = "sensor" /\ s.i_c > Len(in.camera) /\ o = "ok"
DoEndCamera(s, in, o) == [s EXCEPT !.pc = "visit", !.i_v = @ + 1]

\* a sensor that the condition of line 67 rejects
AtSkipSensor(s, in, o) ==
    /\ s.pc = "sensor" /\ s.i_c <= Len(in.camera) /\ o = "ok"
    /\ ~Selected(in.args.ccds, in.camera[s.i_c])
DoSkipSensor(s, in, o) == [s EXCEPT !.i_c = @ + 1]

\* a sensor that the condition of line 67 accepts: the try block
AtFootprint(s, in, o) ==
    /\ s.pc = "sensor" /\ s.i_c <= Len(in.camera)
    /\ Selected(in.args.ccds, in.camera[s.i_c])
    /\ o \in {"ok", "get", "makeWcs", "bboxToRaDec", "fill"}
    /\ MayRaise(s, o)
TryBlock(s, in, o) ==
    LET visit == in.args.visits[s.i_v + 1]
        ccd == in.camera[s.i_c]
        ccdId == ccd.serial
        dataId == DataId(visit, in.args.ccdKey, ccdId)
        wcs == makeWcs(CalexpMd(visit, ccdId))
        rd == bboxToRaDec(ccd.bbox, wcs)
        body == << [op |-> "get", product |-> "calexp_md", dataId |-> dataId],
                   [op |-> "makeWcs"],
                   [op |-> "bboxToRaDec", bbox |-> ccd.bbox],
                   FootprintFill(rd, Color(s.i_v)) >>
        projected == o \in {"ok", "fill"}
    IN  [s EXCEPT !.i_c = @ + 1,
                  !.faults = IF o = "ok" THEN @ ELSE @ + 1,
                  !.ras = IF projected THEN @ \o rd.ra ELSE @,
                  !.decs = IF projected THEN @ \o rd.dec ELSE @,
                  !.calls = @ \o Through(body, o)]

\* as if the try statement enclosed both loops: the first error ends them
DoFootprint_abort(s, in, o) ==
    IF o = "ok" THEN TryBlock(s, in, o)
    ELSE [TryBlock(s, in, o) EXCEPT !.pc = "limits"]

\* as if the points were accumulated after the fill call
DoFootprint_late(s, in, o) ==
    IF o = "fill" THEN [TryBlock(s, in, o) EXCEPT !.ras = s.ras, !.decs = s.decs]
    ELSE TryBlock(s, in, o)

DoFootprint(s, in, o) == TryBlock(s, in, o)

\* xlim = max(ras)+buff, min(ras)-buff; ylim = min(decs)-buff, max(decs)+buff:
\* max() of an empty list raises ValueError
AtComputeLimits(s, in, o) == s.pc = "limits" /\ o = "ok"

\* as if the patches were overlaid whether or not showPatch is set
DoComputeLimits_overlay(s, in, o) ==
    IF s.ras = <<>>
    THEN Raise(s, "max")
    ELSE [s EXCEPT !.xlim = XLim(s.ras), !.ylim = YLim(s.decs), !.pc = "skymap"]

\* as if max and min were given a default for the empty list
DoComputeLimits_default(s, in, o) ==
    [s EXCEPT !.xlim = IF s.ras = <<>> THEN <<Buff, 0 - Buff>> ELSE XLim(s.ras),
              !.ylim = IF s.decs = <<>> THEN <<0 - Buff, Buff>> ELSE YLim(s.decs),
              !.pc = IF in.args.showPatch THEN "skymap" ELSE "axes"]

DoComputeLimits(s, in, o) ==
    IF s.ras = <<>>
    THEN Raise(s, "max")
    ELSE [s EXCEPT !.xlim = XLim(s.ras), !.ylim = YLim(s.decs),
                   !.pc = IF in.args.showPatch THEN "skymap" ELSE "axes"]

\* skymap = butler.get('deepCoadd_skyMap', {'tract': 0})
AtGetSkyMap(s, in, o) == s.pc = "skymap" /\ o \in {"ok", "get"} /\ MayRaise(s, o)
DoGetSkyMap(s, in, o) ==
    LET get == [op |-> "get", product |-> "deepCoadd_skyMap",
                dataId |-> SkyMapDataId(in.args.tract)]
        t == [s EXCEPT !.calls = @ \o Through(<<get>>, o)]
    IN  IF o = "ok"
        THEN [t EXCEPT !.skymap = in.repoSkyMap, !.i_t = 1, !.i_p = 1, !.pc = "patch"]
        ELSE Fail(t, "get")

\* for tract in skymap: the patches of the tract are exhausted
AtEndTract(s, in, o) ==
    /\ s.pc = "patch" /\ s.i_t <= Len(s.skymap) /\ o = "ok"
    /\ s.i_p > Len(s.skymap[s.i_t].patches)
DoEndTract(s, in, o) == [s EXCEPT !.i_t = @ + 1, !.i_p = 1]

\* the tracts are exhausted
AtEndSkyMap(s, in, o) == s.pc = "patch" /\ s.i_t > Len(s.skymap) /\ o = "ok"
DoEndSkyMap(s, in, o) == [s EXCEPT !.pc = "axes"]

\* for patch in tract: outline the patch, label it when its centre is in view
AtDrawPatch(s, in, o) ==
    /\ s.pc = "patch" /\ s.i_t <= Len(s.skymap)
    /\ s.i_p <= Len(s.skymap[s.i_t].patches)
    /\ o \in {"ok", "bboxToRaDec", "fill", "text"}
    /\ MayRaise(s, o)
    /\ o = "text" =>
         InView(bboxToRaDec(s.skymap[s.i_t].patches[s.i_p].innerBBox,
                            s.skymap[s.i_t].wcs), s.xlim, s.ylim)
DoDrawPatch(s, in, o) ==
    LET tract == s.skymap[s.i_t]
        patch == tract.patches[s.i_p]
        rd == bboxToRaDec(patch.innerBBox, tract.wcs)
        outline == << [op |-> "bboxToRaDec", bbox |-> patch.innerBBox], PatchFill(rd) >>
        label == IF InView(rd, s.xlim, s.ylim) THEN <<PatchText(rd, patch)>> ELSE <<>>
        t == [s EXCEPT !.calls = @ \o Through(outline \o label, o)]
    IN  IF o = "ok" THEN [t EXCEPT !.i_p = @ + 1] ELSE Fail(t, o)

\* ax = pyplot.gca(); ax.set_xlabel("R.A. (deg)"); ax.set_ylabel("Decl. (deg)");
\* ax.set_xlim(xlim); ax.set_ylim(ylim)
AxesCalls(xl, yl) ==
    << [op |-> "gca"],
       [op |-> "set_xlabel", label |-> "R.A. (deg)"],
       [op |-> "set_ylabel", label |-> "Decl. (deg)"],
       [op |-> "set_xlim", lim |-> xl],
       [op |-> "set_ylim", lim |-> yl] >>

AtSetAxes(s, in, o) ==
    /\ s.pc = "axes"
    /\ o \in {"ok", "gca", "set_xlabel", "set_ylabel", "set_xlim", "set_ylim"}
    /\ MayRaise(s, o)
DoSetAxes(s, in, o) ==
    LET t == [s EXCEPT !.calls = @ \o Through(AxesCalls(s.xlim, s.ylim), o)]
    IN  IF o = "ok" THEN [t EXCEPT !.pc = "render"] ELSE Fail(t, o)

\* fig = pyplot.gcf(); fig.savefig(saveFile) or fig.show()
AtRender(s, in, o) ==
    /\ s.pc = "render" /\ o \in {"ok", RenderCall(in.args.saveFile)}
    /\ MayRaise(s, o)
DoRender(s, in, o) ==
    LET call == IF RenderCall(in.args.saveFile) = "savefig"
                THEN [op |-> "savefig", fname |-> in.args.saveFile]
                ELSE [op |-> "show"]
        t == [s EXCEPT !.calls = @ \o Through(<<call>>, o)]
    IN  IF o = "ok" THEN [t EXCEPT !.pc = "done"] ELSE Fail(t, o)

----------------------------------------------------------------------------
(* The state machine *)

\* the state of a run when main is entered, after butler and camera are at hand
Entry ==
    [pc |-> "visit", i_v |-> 0, i_c |-> 1, ras |-> <<>>, decs |-> <<>>,
     xlim |-> <<>>, ylim |-> <<>>, skymap |-> <<>>, i_t |-> 1, i_p |-> 1,
     calls |-> <<>>, raised |-> "", faults |-> 0]

Set(r_) ==
    LET r == r_ IN
    /\ pc' = r.pc /\ i_v' = r.i_v /\ i_c' = r.i_c
    /\ ras' = r.ras /\ decs' = r.decs /\ xlim' = r.xlim /\ ylim' = r.ylim
    /\ skymap' = r.skymap /\ i_t' = r.i_t /\ i_p' = r.i_p
    /\ calls' = r.calls /\ raised' = r.raised /\ faults' = r.faults

\* the inputs of the second run: those of the first, but for the tract
TwinIn == [In EXCEPT !.args.tract = twin.tract]

\* The second run, when there is one, takes the same step under the same
\* outcome of the calls.
SetTwin(twinAt, twinR) ==
    twin' = IF ~twin.on THEN twin
            ELSE IF twinAt THEN [twin EXCEPT !.run = twinR]
            ELSE [twin EXCEPT !.run.pc = "diverged"]

BeginVisit ==
    \E o \in {"ok"} :
        /\ AtBeginVisit(Run, In, o)
        /\ Set(DoBeginVisit(Run, In, o))
        /\ SetTwin(AtBeginVisit(twin.run, TwinIn, o), DoBeginVisit(twin.run, TwinIn, o))
        /\ UNCHANGED <<args, camera, repoSkyMap>>

EndVisits ==
    \E o \in {"ok"} :
        /\ AtEndVisits(Run, In, o)
        /\ Set(DoEndVisits(Run, In, o))
        /\ SetTwin(AtEndVisits(twin.run, TwinIn, o), DoEndVisits(twin.run, TwinIn, o))
        /\ UNCHANGED <<args, camera, repoSkyMap>>

EndCamera ==
    \E o \in {"ok"} :
        /\ AtEndCamera(Run, In, o)
        /\ Set(DoEndCamera(Run, In, o))
        /\ SetTwin(AtEndCamera(twin.run, TwinIn, o), DoEndCamera(twin.run, TwinIn, o))
        /\ UNCHANGED <<args, camera, repoSkyMap>>

SkipSensor ==
    \E o \in {"ok"} :
        /\ AtSkipSensor(Run, In, o)
        /\ Set(DoSkipSensor(Run, In, o))
        /\ SetTwin(AtSkipSensor(twin.run, TwinIn, o), DoSkipSensor(twin.run, TwinIn, o))
        /\ UNCHANGED <<args, camera, repoSkyMap>>

Footprint ==
    \E o \in {"ok", "get", "makeWcs", "bboxToRaDec", "fill"} :
        /\ AtFootprint(Run, In, o)
        /\ Set(DoFootprint(Run, In, o))
        /\ SetTwin(AtFootprint(twin.run, TwinIn, o), DoFootprint(twin.run, TwinIn, o))
        /\ UNCHANGED <<args, camera, repoSkyMap>>

ComputeLimits ==
    \E o \in {"ok"} :
        /\ AtComputeLimits(Run, In, o)
        /\ Set(DoComputeLimits(Run, In, o))
        /\ SetTwin(AtComputeLimits(twin.run, TwinIn, o), DoComputeLimits(twin.run, TwinIn, o))
        /\ UNCHANGED <<args, camera, repoSkyMap>>

GetSkyMap ==
    \E o \in {"ok", "get"} :
        /\ AtGetSkyMap(Run, In, o)
        /\ Set(DoGetSkyMap(Run, In, o))
        /\ SetTwin(AtGetSkyMap(twin.run, TwinIn, o), DoGetSkyMap(twin.run, TwinIn, o))
        /\ UNCHANGED <<args, camera, repoSkyMap>>

EndTract ==
    \E o \in {"ok"} :
        /\ AtEndTract(Run, In, o)
        /\ Set(DoEndTract(Run, In, o))
        /\ SetTwin(AtEndTract(twin.run, TwinIn, o), DoEndTract(twin.run, TwinIn, o))
        /\ UNCHANGED <<args, camera, repoSkyMap>>

EndSkyMap ==
    \E o \in {"ok"} :
        /\ AtEndSkyMap(Run, In, o)
        /\ Set(DoEndSkyMap(Run, In, o))
        /\ SetTwin(AtEndSkyMap(twin.run, TwinIn, o), DoEndSkyMap(twin.run, TwinIn, o))
        /\ UNCHANGED <<args, camera, repoSkyMap>>

DrawPatch ==
    \E o \in {"ok", "bboxToRaDec", "fill", "text"} :
        /\ AtDrawPatch(Run, In, o)
        /\ Set(DoDrawPatch(Run, In, o))
        /\ SetTwin(AtDrawPatch(twin.run, TwinIn, o), DoDrawPatch(twin.run, TwinIn, o))
        /\ UNCHANGED <<args, camera, repoSkyMap>>

SetAxes ==
    \E o \in {"ok", "gca", "set_xlabel", "set_ylabel", "set_xlim", "set_ylim"} :
        /\ AtSetAxes(Run, In, o)
        /\ Set(DoSetAxes(Run, In, o))
        /\ SetTwin(AtSetAxes(twin.run, TwinIn, o), DoSetAxes(twin.run, TwinIn, o))
        /\ UNCHANGED <<args, camera, repoSkyMap>>

Render ==
    \E o \in {"ok", "savefig", "show"} :
        /\ AtRender(Run, In, o)
        /\ Set(DoRender(Run, In, o))
        /\ SetTwin(AtRender(twin.run, TwinIn, o), DoRender(twin.run, TwinIn, o))
        /\ UNCHANGED <<args, camera, repoSkyMap>>

Next ==
    \/ BeginVisit \/ EndVisits \/ EndCamera \/ SkipSensor \/ Footprint
    \/ ComputeLimits \/ GetSkyMap \/ EndTract \/ EndSkyMap \/ DrawPatch
    \/ SetAxes \/ Render

\* n visits, alternating between the exposures of VisitIds, from a first one
Alternate(first, n) == [k \in 1..n |-> IF k % 2 = 1 THEN first ELSE 201 - first]

\* a sequence of n copies of x
Repeat(x, n) == [k \in 1..n |-> x]

\* The calls of main: a few visits on any of the cameras, or one visit
\* repeated up to MaxCycle times on the camera of one sensor.
InitInputs ==
    \/ \E su \in Setups, first \in VisitIds, n \in 0..MaxVisits,
          op \in Options, sm \in SkyMaps :
          /\ args = [tract |-> op.tract, visits |-> Alternate(first, n),
                     ccds |-> su.ccds, ccdKey |-> su.ccdKey,
                     showPatch |-> op.showPatch, saveFile |-> op.saveFile]
          /\ camera = su.camera
          /\ repoSkyMap = sm
    \/ \E n \in (MaxVisits + 1)..MaxCycle, op \in Options :
          /\ ~op.showPatch
          /\ args = [tract |-> op.tract, visits |-> Repeat(100, n), ccds |-> NoCcds,
                     ccdKey |-> "ccd", showPatch |-> FALSE, saveFile |-> op.saveFile]
          /\ camera = CamOne
          /\ repoSkyMap = SkyMapTwo

InitRun ==
    /\ pc = Entry.pc /\ i_v = Entry.i_v /\ i_c = Entry.i_c
    /\ ras = Entry.ras /\ decs = Entry.decs /\ xlim = Entry.xlim /\ ylim = Entry.ylim
    /\ skymap = Entry.skymap /\ i_t = Entry.i_t /\ i_p = Entry.i_p
    /\ calls = Entry.calls /\ raised = Entry.raised /\ faults = Entry.faults

Init == InitInputs /\ InitRun /\ twin = [on |-> FALSE]

Spec == Init /\ [][Next]_vars

\* two runs of main that differ only in the value of tract
InitTwin ==
    /\ InitInputs /\ InitRun
    /\ \E tr \in Tracts \ {args.tract} : twin = [on |-> TRUE, tract |-> tr, run |-> Entry]

SpecTwin == InitTwin /\ [][Next]_vars

----------------------------------------------------------------------------
(* What the properties read from the record of calls *)

IsCalexpGet(e) == e.op = "get" /\ e.product = "calexp_md"
IsSkyMapGet(e) == e.op = "get" /\ e.product = "deepCoadd_skyMap"
IsFootprintFill(e) == e.op = "fill" /\ e.fill
IsOutline(e) == e.op = "fill" /\ ~e.fill
IsText(e) == e.op = "text"
IsRender(e) == e.op \in {"savefig", "show"}

InLoop == pc \in {"visit", "sensor"}

\* the sensors the loop is to draw, in camera order
IsWanted(ccd) ==
    ccd.type = "SCIENCE" /\ (args.ccds.given => ccd.serial \in args.ccds.ids)
Wanted == SelectSeq(camera, IsWanted)

\* the (visit, sensor) pairs the loop is to draw, visit-major then camera
\* order: their number and the k-th of them
NPairs == Len(args.visits) * Len(Wanted)
PairAt(k) ==
    [iv |-> (k - 1) \div Len(Wanted),
     visit |-> args.visits[((k - 1) \div Len(Wanted)) + 1],
     ccd |-> Wanted[((k - 1) % Len(Wanted)) + 1]]

\* the positions in calls of the metadata fetches, in order
Positions(Test(_)) ==
    SelectSeq([j \in 1..Len(calls) |-> j], LAMBDA j : Test(calls[j]))
GetAt == Positions(IsCalexpGet)

\* the pair fetched at position j was fetched, given a WCS and projected
ProjectedAt(j) ==
    /\ calls[j].ok
    /\ j + 2 <= Len(calls)
    /\ calls[j + 1].op = "makeWcs" /\ calls[j + 1].ok
    /\ calls[j + 2].op = "bboxToRaDec" /\ calls[j + 2].ok

\* the corners of the footprint of a pair, from the repository's metadata
CornerRa(pair, c) ==
    CalexpMd(pair.visit, pair.ccd.serial).crval[1]
        + (IF c \in {2, 3} THEN pair.ccd.bbox.maxX ELSE pair.ccd.bbox.minX)
CornerDec(pair, c) ==
    CalexpMd(pair.visit, pair.ccd.serial).crval[2]
        + (IF c \in {3, 4} THEN pair.ccd.bbox.maxY ELSE pair.ccd.bbox.minY)

IsMaxOf(x, values) ==
    (\E k \in 1..Len(values) : values[k] = x) /\ (\A k \in 1..Len(values) : values[k] <= x)
IsMinOf(x, values) ==
    (\E k \in 1..Len(values) : values[k] = x) /\ (\A k \in 1..Len(values) : values[k] >= x)

----------------------------------------------------------------------------
(* C1: the aggregation loop attempts exactly one metadata fetch for every  *)
(* (visit position, sensor) pair whose sensor is of science type and       *)
(* passes the ccds filter, none for any other pair, in visit-major then    *)
(* camera order; after the loop the number of fetch attempts is            *)
(* len(visits) times the number of such sensors.                           *)
C1_OneFetchPerSelectedPair ==
    \A got \in {SelectSeq(calls, IsCalexpGet)}, n \in {Len(Wanted)} :
        /\ Len(got) <= NPairs
        /\ \A k \in 1..Len(got) :
             /\ DOMAIN got[k].dataId = {"visit", args.ccdKey}
             /\ got[k].dataId["visit"] = PairAt(k).visit
             /\ got[k].dataId[args.ccdKey] = PairAt(k).ccd.serial
        /\ pc = "visit" => Len(got) = i_v * n
        /\ pc = "sensor" =>
             Len(got) = i_v * n + Len(SelectSeq(SubSeq(camera, 1, i_c - 1), IsWanted))
        /\ ~InLoop => Len(got) = Len(args.visits) * n

\* ccds = {1, 3} on the camera of science sensors 1, 2, 3 and a guider:
\* the run is over and sensors 1 and 3 alone were fetched
C1_Witness ==
    /\ pc = "done" /\ camera = CamFour /\ args.ccds = Ccds({1, 3})
    /\ Len(args.visits) = 1
    /\ Len(SelectSeq(calls, IsCalexpGet)) = 2
    /\ SelectSeq(calls, IsCalexpGet)[1].dataId["ccd"] = 1
    /\ SelectSeq(calls, IsCalexpGet)[2].dataId["ccd"] = 3

----------------------------------------------------------------------------
(* C2: an error of one pair neither ends the loop nor is retried: when the *)
(* loop has ended every pair was fetched once, and ras and decs hold the   *)
(* corner points of the pairs that were fetched, given a WCS and           *)
(* projected, and of no other pair, in visit-major then camera order.      *)
C2_FailedPairsSkipped ==
    ~InLoop =>
        \A gets \in {GetAt} :
            \A done \in {SelectSeq([k \in 1..Len(gets) |-> k],
                                   LAMBDA k : ProjectedAt(gets[k]))} :
                /\ Len(gets) = NPairs
                /\ Len(ras) = 4 * Len(done)
                /\ Len(decs) = 4 * Len(done)
                /\ \A d \in 1..Len(done), c \in 1..4 :
                     /\ ras[4 * (d - 1) + c] = CornerRa(PairAt(done[d]), c)
                     /\ decs[4 * (d - 1) + c] = CornerDec(PairAt(done[d]), c)

\* the loop has ended, a fetch raised and a later pair was drawn
C2_Witness ==
    /\ pc = "limits"
    /\ \E j, i \in 1..Len(calls) :
         /\ IsCalexpGet(calls[j]) /\ ~calls[j].ok
         /\ i > j /\ IsCalexpGet(calls[i]) /\ ProjectedAt(i)
    /\ Len(ras) = 4 * (NPairs - 1)

----------------------------------------------------------------------------
(* C3: when no pair has contributed points, main ends with the error of    *)
(* the view-limit computation: the sky map is not fetched, nothing is      *)
(* outlined or labelled, no axis call is made and nothing is saved or      *)
(* shown.                                                                  *)
C3_EmptyIsFatal ==
    (~InLoop /\ pc # "limits" /\ ras = <<>>) =>
        /\ pc = "error" /\ raised = "max"
        /\ xlim = <<>> /\ ylim = <<>>
        /\ \A j \in 1..Len(calls) :
             \/ calls[j].op \in {"print", "makeWcs", "bboxToRaDec"}
             \/ IsCalexpGet(calls[j])

\* every attempt failed, in a run that was to overlay the patches and save
C3_Witness ==
    /\ pc = "error" /\ raised = "max"
    /\ NPairs > 0 /\ Len(GetAt) = NPairs
    /\ args.showPatch /\ args.saveFile # None

----------------------------------------------------------------------------
(* C4: the view limits are xlim = (max(RA) + 0.1, min(RA) - 0.1), larger   *)
(* value first, and ylim = (min(Dec) - 0.1, max(Dec) + 0.1), of the corner *)
(* points of the footprints alone, and they are the limits given to the    *)
(* axes.                                                                   *)
C4_ViewLimits ==
    LET fills == SelectSeq(calls, IsFootprintFill)
    IN  /\ xlim # <<>> =>
             /\ IsMaxOf(xlim[1] - 10, ras) /\ IsMinOf(xlim[2] + 10, ras)
             /\ IsMinOf(ylim[1] - (0 - 10), decs) /\ IsMaxOf(ylim[2] - 10, decs)
             /\ xlim[1] > xlim[2] /\ ylim[1] < ylim[2]
             /\ Len(ras) = 4 * Len(fills) /\ Len(decs) = 4 * Len(fills)
             /\ \A m \in 1..Len(ras) :
                  /\ ras[m] = fills[((m - 1) \div 4) + 1].ra[((m - 1) % 4) + 1]
                  /\ decs[m] = fills[((m - 1) \div 4) + 1].dec[((m - 1) % 4) + 1]
        /\ \A j \in 1..Len(calls) :
             /\ calls[j].op = "set_xlim" => xlim # <<>> /\ calls[j].lim = xlim
             /\ calls[j].op = "set_ylim" => ylim # <<>> /\ calls[j].lim = ylim

\* RA from 10 to 20 and Dec from 30 to 40 degrees: the limits (20.1, 9.9) and
\* (29.9, 40.1) were given to the axes after the patches were overlaid
C4_Witness ==
    /\ IsMinOf(1000, ras) /\ IsMaxOf(2000, ras)
    /\ IsMinOf(3000, decs) /\ IsMaxOf(4000, decs)
    /\ xlim = <<2010, 990>> /\ ylim = <<2990, 4010>>
    /\ \E j \in 1..Len(calls) : IsOutline(calls[j])
    /\ \E j \in 1..Len(calls) : calls[j].op = "set_ylim" /\ calls[j].ok

----------------------------------------------------------------------------
(* C5: every footprint fill of the visit at position i uses the colour at  *)
(* index i mod 5 of ('r','b','c','g','m') for fill and edge; two fills     *)
(* have the same colour exactly when their positions are equal mod 5.      *)

\* the position of the visit a call belongs to: that of the last print before it
VisitOf(j) ==
    calls[CHOOSE i \in 1..j : calls[i].op = "print"
                              /\ \A h \in (i + 1)..j : calls[h].op # "print"].i_v

C5_ColorCycle ==
    \A F \in {{j \in 1..Len(calls) : IsFootprintFill(calls[j])}} :
        \A at \in {[j \in F |-> VisitOf(j)]} :
            /\ \A j \in F :
                 /\ calls[j].color = <<"r", "b", "c", "g", "m">>[(at[j] % 5) + 1]
                 /\ calls[j].edgecolor = calls[j].color
            /\ \A j, h \in F :
                 (at[j] % 5 = at[h] % 5) <=> (calls[j].color = calls[h].color)

\* the visits at positions 0 and 5 were both drawn, in red
C5_Witness ==
    \E j, h \in 1..Len(calls) :
        /\ IsFootprintFill(calls[j]) /\ VisitOf(j) = 0 /\ calls[j].color = "r"
        /\ IsFootprintFill(calls[h]) /\ VisitOf(h) = 5 /\ calls[h].color = "r"
        /\ calls[j].ok /\ calls[h].ok

----------------------------------------------------------------------------
(* C6: without showPatch a run fetches no sky map, outlines and labels no  *)
(* patch, and its only draw calls are the footprint fills, one for every   *)
(* pair that was fetched, given a WCS and projected.  With showPatch, once *)
(* the limits are computed the sky map is fetched exactly once, the        *)
(* outlines drawn are those of the patches reached so far, tract by tract, *)
(* and when the overlay is over every patch of every tract has one.        *)

\* the patches of the repository's sky map, tract by tract: their number and
\* the k-th of them, as (tract position, patch position)
NPatches ==
    Cardinality({tp \in (1..Len(repoSkyMap)) \X (1..4) :
                    tp[2] <= Len(repoSkyMap[tp[1]].patches)})
PatchAt(k) ==
    CHOOSE tp \in (1..Len(repoSkyMap)) \X (1..4) :
        /\ tp[2] <= Len(repoSkyMap[tp[1]].patches)
        /\ k = tp[2] + Cardinality({up \in (1..(tp[1] - 1)) \X (1..4) :
                                       up[2] <= Len(repoSkyMap[up[1]].patches)})

\* the corners of the k-th patch, from the tract's WCS and the inner box
PatchRa(k) ==
    LET t == repoSkyMap[PatchAt(k)[1]]
        b == t.patches[PatchAt(k)[2]].innerBBox
    IN  <<t.wcs[1] + b.minX, t.wcs[1] + b.maxX, t.wcs[1] + b.maxX, t.wcs[1] + b.minX>>
PatchDec(k) ==
    LET t == repoSkyMap[PatchAt(k)[1]]
        b == t.patches[PatchAt(k)[2]].innerBBox
    IN  <<t.wcs[2] + b.minY, t.wcs[2] + b.minY, t.wcs[2] + b.maxY, t.wcs[2] + b.maxY>>

OverlayOver == pc \in {"axes", "render", "done"} \/ \E j \in 1..Len(calls) : calls[j].op = "gca"

C6_OverlayOnlyOnRequest ==
    \A outlines \in {Positions(IsOutline)}, maps \in {Positions(IsSkyMapGet)} :
        /\ \A j \in 1..Len(calls) :
             IsCalexpGet(calls[j]) =>
                (ProjectedAt(j) <=> (j + 3 <= Len(calls) /\ IsFootprintFill(calls[j + 3])))
        /\ Len(Positions(IsFootprintFill)) = Len(SelectSeq(GetAt, ProjectedAt))
        /\ ~args.showPatch =>
             /\ maps = <<>> /\ outlines = <<>> /\ Positions(IsText) = <<>>
             /\ skymap = <<>>
        /\ Len(maps) <= 1
        /\ (args.showPatch /\ xlim # <<>> /\ pc # "skymap") => Len(maps) = 1
        /\ Len(outlines) <= NPatches
        /\ \A k \in 1..Len(outlines) :
             /\ calls[outlines[k]].ra = PatchRa(k)
             /\ calls[outlines[k]].dec = PatchDec(k)
             /\ calls[outlines[k]].linestyle = "dashed"
             /\ outlines[k] > maps[1]
        /\ (args.showPatch /\ OverlayOver) =>
             /\ Len(outlines) = NPatches
             /\ \A k \in 1..Len(outlines) : calls[outlines[k]].ok

\* visits = [100], one science sensor whose fetch succeeds, showPatch false:
\* the run is over with one draw call
C6_Witness ==
    /\ pc = "done" /\ ~args.showPatch
    /\ args.visits = <<100>> /\ camera = CamOne
    /\ Len(Positions(IsFootprintFill)) = 1
    /\ \A j \in 1..Len(calls) : calls[j].op \in {"fill", "text"} => IsFootprintFill(calls[j])
    /\ faults = 0

----------------------------------------------------------------------------
(* C7: the sky map is always requested with tract key 0, and two runs of   *)
(* main that differ only in tract make the same calls with the same        *)
(* arguments and outcomes in the same order, and compute and apply the     *)
(* same view limits.                                                       *)
C7_TractIgnored ==
    /\ \A j \in 1..Len(calls) :
         IsSkyMapGet(calls[j]) =>
            DOMAIN calls[j].dataId = {"tract"} /\ calls[j].dataId["tract"] = 0
    /\ twin.on =>
         /\ twin.tract # args.tract
         /\ twin.run.pc = pc
         /\ twin.run.calls = calls
         /\ twin.run.xlim = xlim /\ twin.run.ylim = ylim
         /\ twin.run.raised = raised

\* a run for tract 1 and a run for tract 0 have both fetched the sky map,
\* labelled a patch and saved or shown the figure
C7_Witness ==
    /\ twin.on /\ args.tract = 1 /\ twin.tract = 0
    /\ pc = "done" /\ twin.run.pc = "done"
    /\ \E j \in 1..Len(calls) : IsSkyMapGet(calls[j])
    /\ \E j \in 1..Len(calls) : IsText(calls[j])

----------------------------------------------------------------------------
(* C8: a patch whose outline was drawn is labelled if and only if its      *)
(* centroid, the midpoint of the min and max of its projected corners,     *)
(* lies strictly within the view limits: xlim[1] < RA < xlim[0] and        *)
(* ylim[0] < Dec < ylim[1]; the label is the patch index, at the centroid  *)
(* RA and at min(dec) + 0.9*(max(dec) - min(dec)).  percent with p = 0 is  *)
(* the min, with p = 1 the max and with p = 0.5 their midpoint.            *)
Lo(values) == CHOOSE x \in {values[k] : k \in 1..Len(values)} : IsMinOf(x, values)
Hi(values) == CHOOSE x \in {values[k] : k \in 1..Len(values)} : IsMaxOf(x, values)

\* twice the centroid of an outline lies strictly between twice the limits
CentroidInLimits(e) ==
    /\ 2 * xlim[2] < Lo(e.ra) + Hi(e.ra) /\ Lo(e.ra) + Hi(e.ra) < 2 * xlim[1]
    /\ 2 * ylim[1] < Lo(e.dec) + Hi(e.dec) /\ Lo(e.dec) + Hi(e.dec) < 2 * ylim[2]

LabelledAt(j) == j < Len(calls) /\ IsText(calls[j + 1])

C8_LabelIffCentroidInView ==
    \A outlines \in {Positions(IsOutline)} :
        /\ \A k \in 1..Len(outlines) :
             LET j == outlines[k]
                 e == calls[j]
             IN  /\ e.ok => (CentroidInLimits(e) <=> LabelledAt(j))
                 /\ ~e.ok => ~LabelledAt(j)
                 /\ LabelledAt(j) =>
                      /\ 2 * calls[j + 1].x = Lo(e.ra) + Hi(e.ra)
                      /\ 10 * calls[j + 1].y = Lo(e.dec) + 9 * Hi(e.dec)
                      /\ calls[j + 1].s =
                            repoSkyMap[PatchAt(k)[1]].patches[PatchAt(k)[2]].index
                 /\ percent(e.ra, 0) = Lo(e.ra) /\ percent(e.ra, 10) = Hi(e.ra)
                 /\ percent(e.dec, 0) = Lo(e.dec) /\ percent(e.dec, 10) = Hi(e.dec)
                 /\ 2 * percent(e.ra, 5) = Lo(e.ra) + Hi(e.ra)
                 /\ 2 * percent(e.dec, 5) = Lo(e.dec) + Hi(e.dec)
        /\ \A j \in 1..Len(calls) :
             IsText(calls[j]) => j > 1 /\ IsOutline(calls[j - 1]) /\ calls[j - 1].ok

\* a patch whose centroid lies on the lower Dec limit was outlined and not
\* labelled, and a patch within the limits was labelled
C8_Witness ==
    \E j, h \in 1..Len(calls) :
        /\ IsOutline(calls[j]) /\ calls[j].ok /\ ~LabelledAt(j) /\ j < Len(calls)
        /\ Lo(calls[j].dec) + Hi(calls[j].dec) = 2 * ylim[1]
        /\ 2 * xlim[2] < Lo(calls[j].ra) + Hi(calls[j].ra)
        /\ Lo(calls[j].ra) + Hi(calls[j].ra) < 2 * xlim[1]
        /\ IsOutline(calls[h]) /\ LabelledAt(h) /\ calls[h + 1].ok

----------------------------------------------------------------------------
(* C9 as stated: the calls of a run are ordered by phase, and every run    *)
(* that has ended has made exactly one render call.                        *)

\* the phase of the call at position j: 0 aggregation, 1 overlay, 2 axes, 3 render
Phase(j) ==
    IF IsRender(calls[j]) THEN 3
    ELSE IF calls[j].op \in {"gca", "set_xlabel", "set_ylabel", "set_xlim", "set_ylim"} THEN 2
    ELSE IF IsSkyMapGet(calls[j]) \/ IsOutline(calls[j]) \/ IsText(calls[j]) THEN 1
    ELSE IF calls[j].op = "bboxToRaDec" /\ \E i \in 1..j : IsSkyMapGet(calls[i]) THEN 1
    ELSE 0

\* the calls are in phase order; overlay, axes and render calls come after the
\* limits are computed; a render call is the last call of the run and is
\* savefig(saveFile) when saveFile is given, show() otherwise
PhasesInOrder ==
    \A ph \in {[j \in 1..Len(calls) |-> Phase(j)]} :
        /\ \A j \in 2..Len(calls) : ph[j - 1] <= ph[j]
        /\ xlim = <<>> => \A j \in 1..Len(calls) : ph[j] = 0
        /\ \A j \in 1..Len(calls) :
             ph[j] = 3 =>
                /\ j = Len(calls)
                /\ j > 1 /\ calls[j - 1].op = "set_ylim" /\ calls[j - 1].ok
                /\ calls[j].op = (IF args.saveFile = None THEN "show" ELSE "savefig")
                /\ calls[j].op = "savefig" => calls[j].fname = args.saveFile

Ended == pc \in {"done", "error"}

C9_Original ==
    /\ PhasesInOrder
    /\ Ended => Len(Positions(IsRender)) = 1

(* C9, amended: the calls of a run are ordered by phase, the calls of the  *)
(* aggregation are made before the limits are computed, and a run that no  *)
(* error ends makes exactly one render call, its last call; a run that an  *)
(* error ends before the render call makes none.                           *)
C9_PhaseOrder ==
    /\ [](/\ PhasesInOrder
          /\ pc = "done" => Len(Positions(IsRender)) = 1 /\ calls[Len(calls)].ok
          /\ pc = "error" =>
               /\ raised \in {"savefig", "show"} =>
                    Len(Positions(IsRender)) = 1 /\ ~calls[Len(calls)].ok
               /\ raised \notin {"savefig", "show"} => Positions(IsRender) = <<>>
          /\ ~Ended => Positions(IsRender) = <<>>)
    /\ [][(Len(calls') > Len(calls) /\ xlim # <<>>) =>
             \A j \in (Len(calls) + 1)..Len(calls') :
                ~(IsCalexpGet(calls'[j]) \/ IsFootprintFill(calls'[j])
                  \/ calls'[j].op \in {"print", "makeWcs"})]_vars

\* a run that was to save the figure has overlaid the patches and saved it
C9_Witness ==
    /\ pc = "done" /\ args.saveFile = "plot.png" /\ args.showPatch
    /\ calls[Len(calls)].op = "savefig" /\ calls[Len(calls)].ok
    /\ \E j \in 1..Len(calls) : IsText(calls[j])
    /\ \E j \in 1..Len(calls) : IsFootprintFill(calls[j])

----------------------------------------------------------------------------
(* C10 as stated: ras and decs have the same length, 4 times the number of *)
(* footprint fill calls that completed.                                    *)
C10_Original ==
    /\ Len(ras) = Len(decs)
    /\ Len(ras) = 4 * Len(SelectSeq(calls, LAMBDA e : IsFootprintFill(e) /\ e.ok))

(* C10, amended: after every iteration ras and decs have the same length,  *)
(* 4 times the number of footprint fill calls made, whether they returned  *)
(* or raised: a pair contributes its 4 corner points if and only if it was *)
(* fetched, given a WCS and projected, which is when its fill is called.   *)
C10_PointsPerFillCall ==
    /\ Len(ras) = Len(decs)
    /\ Len(ras) = 4 * Len(Positions(IsFootprintFill))
    /\ Len(ras) = 4 * Len(SelectSeq(GetAt, ProjectedAt))
    /\ Len(ras) >= 4 * Len(SelectSeq(calls, LAMBDA e : IsFootprintFill(e) /\ e.ok))
    /\ \A j \in 1..Len(calls) :
         IsFootprintFill(calls[j]) =>
            j > 3 /\ IsCalexpGet(calls[j - 3]) /\ ProjectedAt(j - 3)

\* a fill call raised: its 4 points are accumulated, and the loop went on
C10_Witness ==
    /\ \E j \in 1..Len(calls) : IsFootprintFill(calls[j]) /\ ~calls[j].ok /\ j < Len(calls)
    /\ Len(ras) = 4 * Len(Positions(IsFootprintFill))
    /\ Len(ras) > 4 * Len(SelectSeq(calls, LAMBDA e : IsFootprintFill(e) /\ e.ok))

====
